---- MODULE Spec2Model ----
(***************************************************************************)
(* Mesh validation of DirectXMesh (DirectXMeshValidate.cpp): the two       *)
(* Validate entry points, ValidateIndices, ValidateNoBowties and the orbit *)
(* walk ValidateNoBowties drives.  A client owns one diagnostic string and *)
(* calls Validate on a mesh; it may call a second time on the same mesh    *)
(* with another index width or with the diagnostic string passed or not.   *)
(*                                                                         *)
(* Arrays are functions over 0..n-1, indexed as in the source.  Integer    *)
(* widths are kept (index_t(x) is x % 2^bits), but scaled: the 16-bit      *)
(* index type has NarrowBits bits and the 32-bit types have WideBits bits, *)
(* so that a face count can reach and pass the narrow type's largest value *)
(* in a mesh of a few faces.                                               *)
(***************************************************************************)
EXTENDS Integers, Sequences, FiniteSets

\* ------------------------------------------------------------------ bounds
NarrowBits == 3
WideBits == 16
MaxFaces == 2
MaxVerts == 3

\* --------------------------------------------------------- integer widths
IndexBits(w) == IF w = "uint16_t" THEN NarrowBits ELSE WideBits

\* index_t(-1): the all-bits-set value of the index type.
IndexMax(w) == 2^IndexBits(w) - 1

\* UNUSED32, uint32_t(-1).
UNUSED32 == 2^WideBits - 1

\* index_t(x) for a uint32_t x: the conversion keeps the low bits.
ToIndex(w, x) == x % (2^IndexBits(w))

Widths == {"uint16_t", "uint32_t"}

VALIDATE_DEGENERATE == "VALIDATE_DEGENERATE"
VALIDATE_BACKFACING == "VALIDATE_BACKFACING"
VALIDATE_BOWTIES == "VALIDATE_BOWTIES"
AllFlags == {VALIDATE_DEGENERATE, VALIDATE_BACKFACING, VALIDATE_BOWTIES}

S_OK == "S_OK"
E_FAIL == "E_FAIL"
E_INVALIDARG == "E_INVALIDARG"
E_OUTOFMEMORY == "E_OUTOFMEMORY"
ERROR_ARITHMETIC_OVERFLOW == "ERROR_ARITHMETIC_OVERFLOW"

FAILED(hr) == hr # S_OK

\* ---------------------------------------------------------------- messages
\* One appended text per record: kind names the format string, a/b/c the
\* numbers printed into it.
Msg(kind, a, b, c) == [kind |-> kind, a |-> a, b |-> b, c |-> c]

MissingBackfacingMsg == Msg("missing adjacency BACKFACING", 0, 0, 0)
MissingBowtiesMsg == Msg("missing adjacency BOWTIES", 0, 0, 0)
InvalidIndexMsg(i, face) == Msg("invalid index", i, face, 0)
InvalidNeighborMsg(j, face) == Msg("invalid neighbor", j, face, 0)
DegenerateMsg(bad, face) == Msg("degenerate", bad, face, 0)
DuplicateNeighborMsg(bad, face) == Msg("duplicate neighbor", bad, face, 0)
BowtieIntroMsg == Msg("bowtie explanation", 0, 0, 0)
BowtieMsg(j, curFace, other) == Msg("bowtie", j, curFace, other)

\* A text left in the client's string by an earlier use.
StaleMsg == Msg("stale", 0, 0, 0)

\* "if ( msgs ) *msgs += text;" before a return of E_INVALIDARG.
ExplainNever(a, msgs, m) == msgs

Explain(a, msgs, m) == IF a.hasMsgs THEN Append(msgs, m) ELSE msgs

\* ---------------------------------------------------------- ValidateIndices
\* The scan's locals: result, the diagnostic text so far, and whether the
\* function has already returned E_FAIL (no diagnostic string was given).
ReportDropped(a, st, m) ==
    IF ~a.hasMsgs THEN [st EXCEPT !.stop = TRUE]
    ELSE [st EXCEPT !.result = FALSE]

Report(a, st, m) ==
    IF ~a.hasMsgs THEN [st EXCEPT !.stop = TRUE]
    ELSE [st EXCEPT !.result = FALSE, !.msgs = Append(@, m)]

IsInvalidIndex(a, i) == i >= a.nVerts /\ i # IndexMax(a.w)

IsInvalidNeighbor(a, j) == j >= a.nFaces /\ j # UNUSED32

CheckIndex(a, st, face, point) ==
    IF st.stop THEN st
    ELSE LET i == a.indices[face * 3 + point]
         IN  IF IsInvalidIndex(a, i) THEN Report(a, st, InvalidIndexMsg(i, face))
             ELSE st

CheckNeighbor(a, st, face, point) ==
    IF st.stop \/ ~a.hasAdj THEN st
    ELSE LET j == a.adjacency[face * 3 + point]
         IN  IF IsInvalidNeighbor(a, j)
             THEN Report(a, st, InvalidNeighborMsg(j, face))
             ELSE st

CheckCorner(a, st, face, point) ==
    CheckNeighbor(a, CheckIndex(a, st, face, point), face, point)

CheckCorners(a, st, face) ==
    CheckCorner(a, CheckCorner(a, CheckCorner(a, st, face, 0), face, 1), face, 2)

IsDegenerate(indices, face) ==
    LET i0 == indices[face * 3]
        i1 == indices[face * 3 + 1]
        i2 == indices[face * 3 + 2]
    IN  i0 = i1 \/ i0 = i2 \/ i1 = i2

DegenerateBad(indices, face) ==
    LET i0 == indices[face * 3]
        i1 == indices[face * 3 + 1]
        i2 == indices[face * 3 + 2]
    IN  IF i0 = i1 THEN i0 ELSE IF i1 = i2 THEN i2 ELSE i0

HasDuplicateNeighbor(adjacency, face) ==
    LET j0 == adjacency[face * 3]
        j1 == adjacency[face * 3 + 1]
        j2 == adjacency[face * 3 + 2]
    IN  \/ (j0 = j1 /\ j0 # UNUSED32)
        \/ (j0 = j2 /\ j0 # UNUSED32)
        \/ (j1 = j2 /\ j1 # UNUSED32)

DuplicateBad(adjacency, face) ==
    LET j0 == adjacency[face * 3]
        j1 == adjacency[face * 3 + 1]
        j2 == adjacency[face * 3 + 2]
    IN  IF j0 = j1 /\ j0 # UNUSED32 THEN j0
        ELSE IF j0 = j2 /\ j0 # UNUSED32 THEN j0
        ELSE j1

CheckDuplicateNeighbor(a, st, face) ==
    IF st.stop THEN st
    ELSE IF VALIDATE_BACKFACING \in a.flags /\ a.hasAdj
            /\ HasDuplicateNeighbor(a.adjacency, face)
         THEN Report(a, st, DuplicateNeighborMsg(DuplicateBad(a.adjacency, face), face))
         ELSE st

\* The degenerate check and, for a face that is not degenerate, the
\* duplicate-neighbor check (a degenerate face continues with the next face).
CheckDegenerateNoSkip(a, st, face) ==
    IF st.stop THEN st
    ELSE IF IsDegenerate(a.indices, face)
         THEN IF VALIDATE_DEGENERATE \in a.flags
              THEN CheckDuplicateNeighbor(a,
                       Report(a, st, DegenerateMsg(DegenerateBad(a.indices, face), face)),
                       face)
              ELSE CheckDuplicateNeighbor(a, st, face)
         ELSE CheckDuplicateNeighbor(a, st, face)

CheckDegenerate(a, st, face) ==
    IF st.stop THEN st
    ELSE IF IsDegenerate(a.indices, face)
         THEN IF VALIDATE_DEGENERATE \in a.flags
              THEN Report(a, st, DegenerateMsg(DegenerateBad(a.indices, face), face))
              ELSE st
         ELSE CheckDuplicateNeighbor(a, st, face)

ValidateFace(a, st, face) == CheckDegenerate(a, CheckCorners(a, st, face), face)

RECURSIVE ScanFaces(_, _, _)
ScanFaces(a, st, face) ==
    IF st.stop \/ face >= a.nFaces THEN st
    ELSE ScanFaces(a, ValidateFace(a, st, face), face + 1)

\* ValidateIndices without its check for the adjacency BACKFACING needs.
ValidateIndicesUnguarded(a, msgs) ==
    LET st == ScanFaces(a, [result |-> TRUE, msgs |-> msgs, stop |-> FALSE], 0)
    IN  [hr |-> IF st.stop \/ ~st.result THEN E_FAIL ELSE S_OK, msgs |-> st.msgs]

\* ValidateIndices<index_t>: [hr, msgs], msgs the diagnostic text on return.
ValidateIndices(a, msgs) ==
    IF VALIDATE_BACKFACING \in a.flags /\ ~a.hasAdj
    THEN [hr |-> E_INVALIDARG,
          msgs |-> Explain(a, msgs, MissingBackfacingMsg)]
    ELSE LET st == ScanFaces(a, [result |-> TRUE, msgs |-> msgs, stop |-> FALSE], 0)
         IN  [hr |-> IF st.stop \/ ~st.result THEN E_FAIL ELSE S_OK,
              msgs |-> st.msgs]

\* ------------------------------------------------------------ orbit_iterator
\* The cursor of the walk round a pivot vertex: the face the walk started
\* on, the pivot vertex, the current face, the corner of the current face
\* that holds the pivot (3: no corner holds it), the direction, whether the
\* other direction is still to be tried at a boundary (walk type ALL), and
\* the done flag.
Find(indices, f, v) ==
    IF indices[f * 3] = v THEN 0
    ELSE IF indices[f * 3 + 1] = v THEN 1
    ELSE IF indices[f * 3 + 2] = v THEN 2
    ELSE 3

Initialize(indices, f, v) ==
    [start |-> f, pivot |-> v, cur |-> f, corner |-> Find(indices, f, v),
     clockwise |-> TRUE, all |-> TRUE, done |-> FALSE]

\* The adjacency slot of the edge the walk crosses next: the edge that
\* starts at the pivot's corner (clockwise) or ends at it (counter-clockwise).
EdgeOf(o) == IF o.clockwise THEN o.corner ELSE (o.corner + 2) % 3

EnterFace(a, o, n) == [o EXCEPT !.cur = n, !.corner = Find(a.indices, n, o.pivot)]

Finished(o) == [o EXCEPT !.done = TRUE]

\* The restart of an ALL walk that met a boundary going clockwise: from the
\* starting face, counter-clockwise.
Restart(a, o) ==
    LET c0 == Find(a.indices, o.start, o.pivot)
        r  == [o EXCEPT !.clockwise = FALSE, !.cur = o.start, !.corner = c0]
        n  == a.adjacency[o.start * 3 + ((c0 + 2) % 3)]
    IN  IF n = o.start \/ n = UNUSED32 THEN Finished(r)
        ELSE EnterFace(a, r, n)

\* nextFace()'s move to the following face of the fan.
Advance(a, o) ==
    IF o.corner > 2 THEN o
    ELSE LET n == a.adjacency[o.cur * 3 + EdgeOf(o)]
         IN  IF n = o.start THEN Finished(o)
             ELSE IF n # UNUSED32 THEN EnterFace(a, o, n)
             ELSE IF o.clockwise /\ o.all THEN Restart(a, o)
             ELSE Finished(o)

\* One turn of moveToCCW()'s loop: [o, more]; more is FALSE once the walk
\* stands on the counter-clockwise end of the fan (or is back on the
\* starting face of a closed fan) and is set to go clockwise.
MoveToCCWStep(a, o) ==
    IF o.corner > 2 THEN [o |-> [o EXCEPT !.start = o.cur, !.clockwise = TRUE], more |-> FALSE]
    ELSE LET n == a.adjacency[o.cur * 3 + ((o.corner + 2) % 3)]
         IN  IF n = UNUSED32
             THEN [o |-> [o EXCEPT !.start = o.cur, !.clockwise = TRUE], more |-> FALSE]
             ELSE IF n = o.start
             THEN [o |-> [o EXCEPT !.cur = o.start,
                                   !.corner = Find(a.indices, o.start, o.pivot),
                                   !.clockwise = TRUE],
                   more |-> FALSE]
             ELSE [o |-> EnterFace(a, [o EXCEPT !.clockwise = FALSE], n), more |-> TRUE]

NoOrbit == [start |-> 0, pivot |-> 0, cur |-> 0, corner |-> 0,
            clockwise |-> TRUE, all |-> TRUE, done |-> TRUE]

\* -------------------------------------------------------------------- state
VARIABLES
    arg,          \* the arguments of the call: w, hasIndices, indices, nFaces,
                  \* nVerts, hasAdj, adjacency, flags, hasMsgs
    allocOk,      \* whether the heap can satisfy the scratch allocation
    msgs,         \* the client's diagnostic string
    pc,           \* where the call stands
    hr,           \* Validate's local hr
    ret,          \* the status Validate returned
    face, point, result,                         \* ValidateNoBowties' locals
    faceSeen, faceIds, faceUsing, vertexBowtie,  \* its scratch tables
    ovi,          \* its orbit_iterator
    msgsAtCall,   \* the client's string as it was when the call was made
    oob,          \* a scratch table was accessed outside its bounds
    plan,         \* the calls the client makes after this one
    prev,         \* what the client's previous call returned
    turn          \* the parity of the turns taken by the loops of the walk

vars == <<arg, allocOk, msgs, pc, hr, ret, face, point, result,
          faceSeen, faceIds, faceUsing, vertexBowtie, ovi, oob, plan, prev,
          msgsAtCall, turn>>

scratch == <<face, point, result, faceSeen, faceIds, faceUsing, vertexBowtie, ovi>>

NoPrev == [called |-> FALSE, ret |-> "none", msgs |-> << >>, w |-> "none", hasMsgs |-> FALSE]

\* (uint64_t(nFaces) * 3) > 0xFFFFFFFF
Overflows(nFaces) == nFaces * 3 > UNUSED32

\* ------------------------------------------------------------------ actions
\* "if ( msgs ) msgs->clear();": the diagnostic text after it.
NotCleared(a, m) == m

Cleared(a, m) == IF a.hasMsgs THEN << >> ELSE m

\* Validate, to the return of ValidateIndices.
Call ==
    /\ pc = "call"
    /\ IF ~arg.hasIndices \/ arg.nFaces = 0 \/ arg.nVerts = 0
       THEN /\ ret' = E_INVALIDARG
            /\ pc' = "return"
            /\ UNCHANGED <<msgs, hr>>
       ELSE IF Overflows(arg.nFaces)
       THEN /\ ret' = ERROR_ARITHMETIC_OVERFLOW
            /\ pc' = "return"
            /\ UNCHANGED <<msgs, hr>>
       ELSE LET r == ValidateIndices(arg, Cleared(arg, msgs))
            IN  /\ msgs' = r.msgs
                /\ hr' = r.hr
                /\ pc' = "indexed"
                /\ UNCHANGED ret
    /\ UNCHANGED <<arg, allocOk, oob, plan, prev, msgsAtCall, turn>>
    /\ UNCHANGED scratch

\* Validate after ValidateIndices, and ValidateNoBowties up to its loop.
Dispatch ==
    /\ pc = "indexed"
    /\ IF FAILED(hr)
       THEN /\ ret' = hr
            /\ pc' = "return"
            /\ UNCHANGED <<msgs, hr>>
            /\ UNCHANGED scratch
       ELSE IF VALIDATE_BOWTIES \notin arg.flags
       THEN /\ ret' = S_OK
            /\ pc' = "return"
            /\ UNCHANGED <<msgs, hr>>
            /\ UNCHANGED scratch
       ELSE IF ~arg.hasAdj
       THEN /\ msgs' = Explain(arg, msgs, MissingBowtiesMsg)
            /\ hr' = E_INVALIDARG
            /\ ret' = E_INVALIDARG
            /\ pc' = "return"
            /\ UNCHANGED scratch
       ELSE IF ~allocOk
       THEN /\ hr' = E_OUTOFMEMORY
            /\ ret' = E_OUTOFMEMORY
            /\ pc' = "return"
            /\ UNCHANGED msgs
            /\ UNCHANGED scratch
       ELSE /\ faceSeen' = [k \in 0..(arg.nFaces * 3 - 1) |-> FALSE]
            /\ faceIds' = [v \in 0..(arg.nVerts - 1) |-> IndexMax(arg.w)]
            /\ faceUsing' = [v \in 0..(arg.nVerts - 1) |-> 0]
            /\ vertexBowtie' = [v \in 0..(arg.nVerts - 1) |-> FALSE]
            /\ result' = TRUE
            /\ face' = 0
            /\ pc' = "face"
            /\ UNCHANGED <<msgs, hr, ret, point, ovi>>
    /\ UNCHANGED <<arg, allocOk, oob, plan, prev, msgsAtCall, turn>>

\* The return of ValidateNoBowties into Validate, and of Validate.
Leave(status) ==
    /\ hr' = status
    /\ ret' = IF FAILED(status) THEN status ELSE S_OK
    /\ pc' = "return"

\* The head of the loop over the faces, and a degenerate face.
BowtieFace ==
    /\ pc = "face"
    /\ IF face >= arg.nFaces
       THEN /\ Leave(IF result THEN S_OK ELSE E_FAIL)
            /\ UNCHANGED <<face, point, faceSeen>>
       ELSE IF IsDegenerate(arg.indices, face)
       THEN /\ faceSeen' = [faceSeen EXCEPT ![face * 3] = TRUE,
                                            ![face * 3 + 1] = TRUE,
                                            ![face * 3 + 2] = TRUE]
            /\ face' = face + 1
            /\ UNCHANGED <<hr, ret, pc, point>>
       ELSE /\ point' = 0
            /\ pc' = "point"
            /\ UNCHANGED <<hr, ret, face, faceSeen>>
    /\ UNCHANGED <<arg, allocOk, msgs, result, faceIds, faceUsing, vertexBowtie,
                   ovi, oob, plan, prev, msgsAtCall, turn>>

\* The head of the loop over a face's corners: a corner not yet seen starts
\* an orbit round its vertex.
BowtiePoint ==
    /\ pc = "point"
    /\ IF point >= 3
       THEN /\ face' = face + 1
            /\ pc' = "face"
            /\ UNCHANGED <<point, faceSeen, ovi>>
       ELSE IF faceSeen[face * 3 + point]
       THEN /\ point' = point + 1
            /\ UNCHANGED <<face, pc, faceSeen, ovi>>
       ELSE /\ faceSeen' = [faceSeen EXCEPT ![face * 3 + point] = TRUE]
            /\ ovi' = Initialize(arg.indices, face, arg.indices[face * 3 + point])
            /\ pc' = "ccw"
            /\ UNCHANGED <<face, point>>
    /\ UNCHANGED <<arg, allocOk, msgs, hr, ret, result, faceIds, faceUsing,
                   vertexBowtie, oob, plan, prev, msgsAtCall, turn>>

\* ovi.moveToCCW(), one turn of its loop at a time.
MoveToCCW ==
    /\ pc = "ccw"
    /\ LET r == MoveToCCWStep(arg, ovi)
       IN  /\ ovi' = r.o
           /\ pc' = IF r.more THEN "ccw" ELSE "orbit"
    /\ turn' = 1 - turn
    /\ UNCHANGED <<arg, allocOk, msgs, hr, ret, face, point, result, faceSeen,
                   faceIds, faceUsing, vertexBowtie, oob, plan, prev, msgsAtCall>>

\* What the read of a table entry outside the table may give: the owner
\* table's "no owner" value, the current face, or another face.
StrayOwners(w, f) == {IndexMax(w), ToIndex(w, f), ToIndex(w, f + 1)}
StrayFaces(w) == {0, IndexMax(w)}

\* The body of the orbit loop for the corner (curFace, curPoint) holding
\* vertex j, with the values read from faceIds[j], vertexBowtie[j] and
\* faceUsing[j]; inRange tells whether j is an index of the tables (a write
\* outside them leaves the tables as they are).
Visit(curFace, curPoint, j, owner, flagged, using, inRange) ==
    /\ faceSeen' = [faceSeen EXCEPT ![curFace * 3 + curPoint] = TRUE]
    /\ oob' = (oob \/ ~inRange)
    /\ IF owner = IndexMax(arg.w)
       THEN /\ faceIds' = IF inRange
                          THEN [faceIds EXCEPT ![j] = ToIndex(arg.w, face)]
                          ELSE faceIds
            /\ faceUsing' = IF inRange
                            THEN [faceUsing EXCEPT ![j] = ToIndex(arg.w, curFace)]
                            ELSE faceUsing
            /\ UNCHANGED <<msgs, result, vertexBowtie, hr, ret, pc>>
       ELSE IF owner # ToIndex(arg.w, face) /\ ~flagged
       THEN IF ~arg.hasMsgs
            THEN /\ Leave(E_FAIL)
                 /\ UNCHANGED <<msgs, result, vertexBowtie, faceIds, faceUsing>>
            ELSE /\ msgs' = Append(IF result THEN Append(msgs, BowtieIntroMsg) ELSE msgs,
                                   BowtieMsg(j, curFace, using))
                 /\ result' = FALSE
                 /\ vertexBowtie' = IF inRange
                                    THEN [vertexBowtie EXCEPT ![j] = TRUE]
                                    ELSE vertexBowtie
                 /\ UNCHANGED <<faceIds, faceUsing, hr, ret, pc>>
       ELSE UNCHANGED <<msgs, result, vertexBowtie, faceIds, faceUsing, hr, ret, pc>>

\* One turn of the loop "while ( !ovi.done() )".
OrbitStep ==
    /\ pc = "orbit"
    /\ turn' = 1 - turn
    /\ IF ovi.done
       THEN /\ point' = point + 1
            /\ pc' = "point"
            /\ UNCHANGED <<msgs, hr, ret, result, faceSeen, faceIds, faceUsing,
                           vertexBowtie, ovi, oob>>
       ELSE LET curFace  == ovi.cur
                curPoint == ovi.corner
            IN  /\ ovi' = Advance(arg, ovi)
                /\ UNCHANGED point
                /\ IF curFace >= arg.nFaces \/ curPoint > 2
                   THEN /\ Leave(E_FAIL)
                        /\ UNCHANGED <<msgs, result, faceSeen, faceIds, faceUsing,
                                       vertexBowtie, oob>>
                   ELSE LET j == arg.indices[curFace * 3 + curPoint]
                        IN  IF j < arg.nVerts
                            THEN Visit(curFace, curPoint, j, faceIds[j],
                                       vertexBowtie[j], faceUsing[j], TRUE)
                            ELSE \E crash \in BOOLEAN :
                                   IF crash
                                   THEN /\ pc' = "crashed"
                                        /\ oob' = TRUE
                                        /\ UNCHANGED <<msgs, hr, ret, result, faceSeen,
                                                       faceIds, faceUsing, vertexBowtie>>
                                   ELSE \E owner \in StrayOwners(arg.w, face),
                                           flagged \in BOOLEAN,
                                           using \in StrayFaces(arg.w) :
                                          Visit(curFace, curPoint, j, owner, flagged,
                                                using, FALSE)
    /\ UNCHANGED <<arg, allocOk, face, plan, prev, msgsAtCall>>

NoTable == << >>

\* Validate returns to the client, which makes the next call of its plan:
\* the same mesh and flags, the index width and the diagnostic string of
\* the plan.
Return ==
    /\ pc = "return"
    /\ face' = 0 /\ point' = 0 /\ result' = TRUE
    /\ faceSeen' = NoTable /\ faceIds' = NoTable
    /\ faceUsing' = NoTable /\ vertexBowtie' = NoTable
    /\ ovi' = NoOrbit
    /\ IF plan # << >>
       THEN /\ prev' = [called |-> TRUE, ret |-> ret, msgs |-> msgs,
                        w |-> arg.w, hasMsgs |-> arg.hasMsgs]
            /\ arg' = [arg EXCEPT !.w = Head(plan).w, !.hasMsgs = Head(plan).hasMsgs]
            /\ plan' = Tail(plan)
            /\ hr' = "none"
            /\ ret' = "none"
            /\ msgsAtCall' = msgs
            /\ pc' = "call"
       ELSE /\ pc' = "idle"
            /\ UNCHANGED <<arg, plan, prev, hr, ret, msgsAtCall>>
    /\ UNCHANGED <<allocOk, msgs, oob, turn>>

Next ==
    \/ Call
    \/ Dispatch
    \/ BowtieFace
    \/ BowtiePoint
    \/ MoveToCCW
    \/ OrbitStep
    \/ Return

\* ------------------------------------------------------------ initial states
Start(a, ok, m0, pl) ==
    /\ arg = a
    /\ allocOk = ok
    /\ msgs = m0
    /\ pc = "call"
    /\ hr = "none"
    /\ ret = "none"
    /\ face = 0 /\ point = 0 /\ result = TRUE
    /\ faceSeen = NoTable /\ faceIds = NoTable
    /\ faceUsing = NoTable /\ vertexBowtie = NoTable
    /\ ovi = NoOrbit
    /\ oob = FALSE
    /\ plan = pl
    /\ prev = NoPrev
    /\ turn = 0
    /\ msgsAtCall = m0

\* The smallest face count the entry check rejects as an overflow.
OverflowFaces == (UNUSED32 \div 3) + 1

\* An argument list and the lists that differ from it in one argument the
\* entry check rejects.
Rejected(a) ==
    {[a EXCEPT !.hasIndices = FALSE], [a EXCEPT !.nFaces = 0],
     [a EXCEPT !.nVerts = 0], [a EXCEPT !.nFaces = OverflowFaces]}

\* Vertex index values: those below nVerts, nVerts itself (out of range) and
\* the index type's all-bits-set value.
VertexValues(w, nVerts) == (0..nVerts) \cup {IndexMax(w)}

\* Neighbor values: the faces, nFaces itself (out of range) and UNUSED32.
NeighborValues(nFaces) == (0..nFaces) \cup {UNUSED32}

Args(w, n, nVerts, ind, hasAdj, adj, flags, hasMsgs) ==
    [w |-> w, hasIndices |-> TRUE, indices |-> ind, nFaces |-> n, nVerts |-> nVerts,
     hasAdj |-> hasAdj, adjacency |-> adj, flags |-> flags, hasMsgs |-> hasMsgs]

NoAdjacency == << >>

\* The client's string holds an earlier text or none when it is passed.
Strings(a) == IF a.hasMsgs THEN {<< >>, <<StaleMsg>>} ELSE {<< >>}

\* The allocation can fail only where it is reached.
Heaps(a) == IF VALIDATE_BOWTIES \in a.flags /\ a.hasAdj THEN BOOLEAN ELSE {TRUE}

StartAny(a, pl) == \E m0 \in Strings(a), ok \in Heaps(a) : Start(a, ok, m0, pl)

\* Every mesh of one face over the vertex and neighbor values, with and
\* without adjacency, under every flag combination and index width; without
\* adjacency, also the calls the entry check rejects.
InitSingleFace ==
    \E w \in Widths, hasAdj \in BOOLEAN, flags \in SUBSET AllFlags, hasMsgs \in BOOLEAN :
        \E ind \in [0..2 -> VertexValues(w, MaxVerts)],
           adj \in IF hasAdj THEN [0..2 -> NeighborValues(1)] ELSE {NoAdjacency} :
            LET a == Args(w, 1, MaxVerts, ind, hasAdj, adj, flags, hasMsgs)
            IN  \/ StartAny(a, << >>)
                \/ /\ ~hasAdj
                   /\ \E r \in Rejected(a) : StartAny(r, << >>)

\* Faces of a longer mesh: a clean face, degenerate faces (first two, last
\* two corners equal), a face with one and a face with two out-of-range
\* corners (the latter degenerate too).
FaceKinds(nVerts) ==
    {<<0, 1, 2>>, <<0, 0, 1>>, <<1, 0, 0>>, <<nVerts, 1, 2>>, <<nVerts, 1, nVerts>>}

\* Their neighbor entries: none, a neighbor twice (first two, last two
\* entries), an out-of-range entry.
NeighborKinds(nFaces) ==
    {<<UNUSED32, UNUSED32, UNUSED32>>, <<0, 0, UNUSED32>>, <<UNUSED32, 1, 1>>,
     <<nFaces, UNUSED32, 0>>}

\* The flat array of the faces' triples.
Flat(triples, n) == [k \in 0..(3 * n - 1) |-> triples[(k \div 3) + 1][(k % 3) + 1]]

InitManyFaces ==
    \E w \in Widths, n \in 2..MaxFaces, hasAdj \in BOOLEAN,
       flags \in SUBSET AllFlags, hasMsgs \in BOOLEAN :
        \E tri \in [1..n -> FaceKinds(MaxVerts)],
           nb \in IF hasAdj THEN [1..n -> NeighborKinds(n)] ELSE {<< >>} :
            StartAny(Args(w, n, MaxVerts, Flat(tri, n), hasAdj,
                          IF hasAdj THEN Flat(nb, n) ELSE NoAdjacency, flags, hasMsgs),
                     << >>)

Init == InitSingleFace \/ InitManyFaces

Spec == Init /\ [][Next]_vars

\* --------------------------------------------------- initial states: fans
\* Meshes as lists of triples; -1 stands for the index type's all-bits-set
\* value.  nVerts is one more than the largest vertex named.
FanMeshes ==
    {<< <<0, 1, 2>> >>,
     << <<0, 1, 2>>, <<0, 2, 3>> >>,
     << <<0, 1, 2>>, <<0, 3, 4>> >>,
     << <<0, 1, 2>>, <<2, 1, 0>> >>,
     << <<0, 1, 2>>, <<0, 2, 3>>, <<0, 3, 1>> >>,
     << <<0, 1, 2>>, <<0, 2, 3>>, <<0, 4, 5>> >>,
     << <<0, 1, 2>>, <<0, 3, 4>>, <<0, 5, 6>> >>,
     << <<0, 1, 2>>, <<3, 3, 4>>, <<0, 2, 3>> >>,
     << <<0, 1, -1>> >>,
     << <<0, 1, -1>>, <<0, 2, 1>> >>}

Larger(x, y) == IF x >= y THEN x ELSE y

VertexCount(mesh) ==
    LET top(t) == Larger(t[1], Larger(t[2], t[3]))
        RECURSIVE upto(_)
        upto(k) == IF k = 0 THEN 0 ELSE Larger(top(mesh[k]), upto(k - 1))
    IN  upto(Len(mesh)) + 1

\* The index array of a mesh in the index type w.
IndexArray(w, mesh) ==
    [k \in 0..(3 * Len(mesh) - 1) |->
        LET x == mesh[(k \div 3) + 1][(k % 3) + 1]
        IN  IF x = -1 THEN IndexMax(w) ELSE x]

\* Edge e of face f runs from corner e to corner e+1.
EdgeFrom(ind, f, e) == ind[f * 3 + e]
EdgeTo(ind, f, e) == ind[f * 3 + ((e + 1) % 3)]

\* Face g holds edge e of face f reversed, as its edge e2.
Reversed(ind, f, e, g, e2) ==
    /\ EdgeFrom(ind, g, e2) = EdgeTo(ind, f, e)
    /\ EdgeTo(ind, g, e2) = EdgeFrom(ind, f, e)

\* The adjacency of a mesh of n faces: across each edge the first other face
\* that holds the edge reversed, UNUSED32 where there is none; a degenerate
\* face has no neighbors and is nobody's neighbor.
EdgeAdjacency(ind, n) ==
    [k \in 0..(3 * n - 1) |->
        LET f == k \div 3
            e == k % 3
            across == {g \in 0..(n - 1) :
                          /\ g # f
                          /\ ~IsDegenerate(ind, f)
                          /\ ~IsDegenerate(ind, g)
                          /\ \E e2 \in 0..2 : Reversed(ind, f, e, g, e2)}
        IN  IF across = {} THEN UNUSED32
            ELSE CHOOSE g \in across : \A h \in across : g <= h]

NoNeighbors(n) == [k \in 0..(3 * n - 1) |-> UNUSED32]

\* The second call of a client that compares the two ways of reporting.
OtherReporting(w, hasMsgs) == <<[w |-> w, hasMsgs |-> ~hasMsgs]>>

\* The second call of a client that compares the two index widths.
OtherWidth(w, hasMsgs) ==
    <<[w |-> IF w = "uint16_t" THEN "uint32_t" ELSE "uint16_t", hasMsgs |-> hasMsgs]>>

\* Bowtie validation of the fan meshes, with the adjacency of their shared
\* edges or with none recorded, called once or in both ways of reporting.
InitFans ==
    \E w \in Widths, hasMsgs \in BOOLEAN, mesh \in FanMeshes :
        LET n   == Len(mesh)
            ind == IndexArray(w, mesh)
        IN  \E adj \in {EdgeAdjacency(ind, n), NoNeighbors(n)},
               pl \in {<< >>, OtherReporting(w, hasMsgs)} :
                Start(Args(w, n, VertexCount(mesh), ind, TRUE, adj,
                           {VALIDATE_BOWTIES}, hasMsgs),
                      TRUE, << >>, pl)

SpecFans == InitFans /\ [][Next]_vars

\* Bowtie validation of two faces that share the edge between vertices 0 and
\* 2, under every adjacency that passes index validation, symmetric or not,
\* of edge 0-1 (slot 0) and edge 2-0 (slot 2) of face 0 and of edge 0-2
\* (slot 3) of face 1; the other edges have no neighbor.
OrbitMesh == << <<0, 1, 2>>, <<0, 2, 3>> >>

InitOrbits ==
    \E hasMsgs \in BOOLEAN :
        \E at0 \in [{0, 2, 3} -> {0, 1, UNUSED32}] :
            LET adj == [k \in 0..5 |-> IF k \in DOMAIN at0 THEN at0[k] ELSE UNUSED32]
            IN  Start(Args("uint32_t", Len(OrbitMesh), VertexCount(OrbitMesh),
                           IndexArray("uint32_t", OrbitMesh), TRUE, adj,
                           {VALIDATE_BOWTIES}, hasMsgs),
                      TRUE, << >>, << >>)

\* The call is one thread running to its return: it takes its next step
\* whenever it has one.
FairSpecOrbits == InitOrbits /\ [][Next]_vars /\ WF_vars(Next)

\* Meshes whose faces are degenerate (0,0,0) but for face p, (0,1,2), and the
\* last face q, which shares vertex 0 alone or an edge with it; q reaches
\* the largest value of the narrow index type and the value after it.
PaddedMesh(p, q, last) ==
    [f \in 1..(q + 1) |->
        IF f = p + 1 THEN <<0, 1, 2>> ELSE IF f = q + 1 THEN last ELSE <<0, 0, 0>>]

InitWidths ==
    \E w \in Widths, hasMsgs \in BOOLEAN, q \in 1..(2^NarrowBits) :
        \E p \in 0..(q - 1), last \in {<<0, 3, 4>>, <<0, 2, 3>>} :
            LET mesh == PaddedMesh(p, q, last)
                ind  == IndexArray(w, mesh)
            IN  \E adj \in {EdgeAdjacency(ind, q + 1), NoNeighbors(q + 1)} :
                    Start(Args(w, q + 1, VertexCount(mesh), ind, TRUE, adj,
                               {VALIDATE_BOWTIES}, hasMsgs),
                          TRUE, << >>, OtherWidth(w, hasMsgs))

SpecWidths == InitWidths /\ [][Next]_vars

\* ------------------------------------------------------- properties: Validate
\* The call has returned to the client.
Returned == pc \in {"return", "idle"}

\* The entry check of Validate lets the call through.
PassesEntry(a) ==
    a.hasIndices /\ a.nFaces # 0 /\ a.nVerts # 0 /\ a.nFaces * 3 <= 2^WideBits - 1

Faces(a) == 0..(a.nFaces - 1)
Corners(a) == 0..(a.nFaces * 3 - 1)

\* Stated from the data model: an index is acceptable when it names a vertex
\* slot or is the all-bits-set value of its type.
BadCorner(a, k) ==
    a.indices[k] >= a.nVerts /\ a.indices[k] # 2^IndexBits(a.w) - 1

BadNeighbor(a, k) ==
    a.hasAdj /\ a.adjacency[k] >= a.nFaces /\ a.adjacency[k] # 2^WideBits - 1

TwoEqualCorners(a, f) ==
    \E p, q \in 0..2 : p # q /\ a.indices[f * 3 + p] = a.indices[f * 3 + q]

TwoEqualNeighbors(a, f) ==
    /\ a.hasAdj
    /\ \E p, q \in 0..2 :
          /\ p # q
          /\ a.adjacency[f * 3 + p] = a.adjacency[f * 3 + q]
          /\ a.adjacency[f * 3 + p] # 2^WideBits - 1

\* What index validation is to report.
IndexDefect(a) ==
    \/ \E k \in Corners(a) : BadCorner(a, k) \/ BadNeighbor(a, k)
    \/ VALIDATE_DEGENERATE \in a.flags /\ \E f \in Faces(a) : TwoEqualCorners(a, f)
    \/ /\ VALIDATE_BACKFACING \in a.flags
       /\ \E f \in Faces(a) : ~TwoEqualCorners(a, f) /\ TwoEqualNeighbors(a, f)

MissingAdjacency(a) == VALIDATE_BACKFACING \in a.flags /\ ~a.hasAdj

\* C1 (as stated): a call that passes the entry check, without adjacency and
\* with the backfacing or the bowtie flag set, returns E_INVALIDARG whatever
\* the mesh holds.
C1_AsStated ==
    (Returned /\ PassesEntry(arg) /\ ~arg.hasAdj
        /\ (VALIDATE_BACKFACING \in arg.flags \/ VALIDATE_BOWTIES \in arg.flags))
    => ret = E_INVALIDARG

\* C1 (amended): without adjacency, a call that passes the entry check
\* returns E_INVALIDARG whenever the backfacing flag is set; with the bowtie
\* flag alone it returns E_INVALIDARG when index validation finds nothing to
\* report and E_FAIL when it does, index validation running first.
C1_MissingAdjacency ==
    (Returned /\ PassesEntry(arg) /\ ~arg.hasAdj)
    => /\ VALIDATE_BACKFACING \in arg.flags => ret = E_INVALIDARG
       /\ (VALIDATE_BACKFACING \notin arg.flags /\ VALIDATE_BOWTIES \in arg.flags)
            => ret = (IF IndexDefect(arg) THEN E_FAIL ELSE E_INVALIDARG)

C1_Witness ==
    /\ pc = "idle" /\ PassesEntry(arg) /\ ~arg.hasAdj
    /\ arg.flags = {VALIDATE_BOWTIES, VALIDATE_DEGENERATE}
    /\ arg.nFaces = 2
    /\ ~IndexDefect(arg)
    /\ ret = E_INVALIDARG

\* C2 (as stated): when Validate returns E_INVALIDARG and was given the
\* diagnostic string, the call has appended nothing to it.
C2_AsStated ==
    (Returned /\ ret = E_INVALIDARG /\ arg.hasMsgs)
    => (msgs = << >> \/ msgs = msgsAtCall)

\* C2 (amended): when Validate returns E_INVALIDARG and was given the
\* diagnostic string, either the entry check rejected the call and the
\* string is as it was, or adjacency is missing for the backfacing or the
\* bowtie check and the string holds that one explanation and nothing else.
C2_InvalidArgText ==
    (Returned /\ ret = E_INVALIDARG /\ arg.hasMsgs)
    => IF ~PassesEntry(arg) THEN msgs = msgsAtCall
       ELSE /\ ~arg.hasAdj
            /\ msgs = IF VALIDATE_BACKFACING \in arg.flags
                      THEN <<MissingBackfacingMsg>>
                      ELSE <<MissingBowtiesMsg>>

C2_Witness ==
    /\ pc = "idle" /\ ret = E_INVALIDARG /\ arg.hasMsgs /\ PassesEntry(arg)
    /\ msgsAtCall = <<StaleMsg>>
    /\ msgs = <<MissingBackfacingMsg>>

HoldsStale(m) == \E k \in 1..Len(m) : m[k] = StaleMsg

\* C3 (as stated): whatever the outcome, a call given the diagnostic string
\* leaves in it nothing that was there before the call.
C3_AsStated == (Returned /\ arg.hasMsgs) => ~HoldsStale(msgs)

\* C3 (amended): a call given the diagnostic string that passes the entry
\* check leaves in it nothing that was there before the call; a call the
\* entry check rejects (E_INVALIDARG, arithmetic overflow) leaves the string
\* as it was.
C3_ClearedAfterEntry ==
    (Returned /\ arg.hasMsgs)
    => IF PassesEntry(arg) THEN ~HoldsStale(msgs) ELSE msgs = msgsAtCall

C3_Witness ==
    /\ pc = "idle" /\ arg.hasMsgs /\ PassesEntry(arg)
    /\ msgsAtCall = <<StaleMsg>>
    /\ ret = E_FAIL /\ Len(msgs) >= 2

\* ------------------------------------------------ properties: ValidateIndices
\* The "invalid index" texts a scan of corners k, k+1, ... is to leave, one
\* per out-of-range corner, in order, each naming the corner's face.
RECURSIVE ExpectedInvalidIndex(_, _)
ExpectedInvalidIndex(a, k) ==
    IF k >= a.nFaces * 3 THEN << >>
    ELSE (IF BadCorner(a, k)
          THEN <<[kind |-> "invalid index", a |-> a.indices[k], b |-> k \div 3, c |-> 0]>>
          ELSE << >>)
         \o ExpectedInvalidIndex(a, k + 1)

IsInvalidIndexText(m) == m.kind = "invalid index"

\* C4 (as stated): given the diagnostic string, index validation scans every
\* face and leaves one "invalid index" text per out-of-range corner, in
\* order, naming the corner's face, and fails if there is any.
C4_AsStated ==
    (pc = "indexed" /\ arg.hasMsgs)
    => /\ SelectSeq(msgs, IsInvalidIndexText) = ExpectedInvalidIndex(arg, 0)
       /\ ExpectedInvalidIndex(arg, 0) # << >> => hr = E_FAIL

\* C4 (amended): the same, for a call whose adjacency precondition is met
\* (not the backfacing flag without adjacency, which returns E_INVALIDARG
\* before any face is scanned).
C4_OneTextPerInvalidCorner ==
    (pc = "indexed" /\ arg.hasMsgs /\ ~MissingAdjacency(arg))
    => /\ SelectSeq(msgs, IsInvalidIndexText) = ExpectedInvalidIndex(arg, 0)
       /\ ExpectedInvalidIndex(arg, 0) # << >> => hr = E_FAIL

C4_Witness ==
    /\ pc = "indexed" /\ arg.hasMsgs /\ ~MissingAdjacency(arg)
    /\ arg.nFaces = 2
    /\ BadCorner(arg, 0) /\ BadCorner(arg, 3) /\ BadCorner(arg, 5)
    /\ Len(SelectSeq(msgs, IsInvalidIndexText)) = 3
    /\ Len(msgs) > 3

\* C5: with its adjacency precondition met, index validation succeeds
\* exactly when no corner is out of range, no neighbor entry is out of range,
\* no face has two equal corners while the degenerate flag is set, and no
\* non-degenerate face has two equal neighbors while the backfacing flag is
\* set; a degenerate face with equal neighbors passes when the degenerate
\* flag is unset.
C5_IndexValidationExact ==
    (pc = "indexed" /\ ~MissingAdjacency(arg))
    => (hr = S_OK <=> ~IndexDefect(arg))

C5_Witness ==
    /\ pc = "indexed" /\ arg.hasAdj
    /\ arg.flags = {VALIDATE_BACKFACING}
    /\ TwoEqualCorners(arg, 0) /\ TwoEqualNeighbors(arg, 0)
    /\ hr = S_OK


\* ------------------------------------------------------ properties: bowties
\* Vertex v is a corner of face f.
Uses(a, f, v) == \E p \in 0..2 : a.indices[f * 3 + p] = v

\* A face that the bowtie detector does not skip.
FanFaces(a, v) == {f \in Faces(a) : Uses(a, f, v) /\ ~TwoEqualCorners(a, f)}

\* The adjacency records face g across an edge of face f that ends in v.
LinkedAt(a, v, f, g) ==
    \E e \in 0..2 :
        /\ a.adjacency[f * 3 + e] = g
        /\ v \in {EdgeFrom(a.indices, f, e), EdgeTo(a.indices, f, e)}

\* The fan of v that holds the faces of S: what the adjacency connects to
\* them round v.
RECURSIVE FanOf(_, _, _)
FanOf(a, v, S) ==
    LET T == S \cup {g \in FanFaces(a, v) :
                        \E f \in S : LinkedAt(a, v, f, g) \/ LinkedAt(a, v, g, f)}
    IN  IF T = S THEN S ELSE FanOf(a, v, T)

FansAt(a, v) == {FanOf(a, v, {f}) : f \in FanFaces(a, v)}

\* A bowtie vertex: its non-degenerate faces form two or more fans.
IsBowtieVertex(a, v) == Cardinality(FansAt(a, v)) >= 2

\* Every recorded neighbor is a face of the mesh that records this face
\* back across the same edge, reversed.
ConsistentAdjacency(a) ==
    \A f \in Faces(a), e \in 0..2 :
        LET g == a.adjacency[f * 3 + e]
        IN  \/ g = UNUSED32
            \/ /\ g < a.nFaces
               /\ g # f
               /\ \E e2 \in 0..2 :
                     /\ a.adjacency[g * 3 + e2] = f
                     /\ Reversed(a.indices, f, e, g, e2)

BowtieTexts(m) == {k \in 1..Len(m) : m[k].kind = "bowtie"}

BowtieTextsFor(m, v) == {k \in BowtieTexts(m) : m[k].a = v}

\* The values the bowtie texts give as vertex.
BowtieVertices(m) == {m[k].a : k \in BowtieTexts(m)}

\* The call ran the bowtie check to its return.
BowtiesChecked ==
    /\ Returned
    /\ PassesEntry(arg)
    /\ arg.hasAdj
    /\ VALIDATE_BOWTIES \in arg.flags
    /\ allocOk
    /\ ~IndexDefect(arg)

\* C10 (as stated): whenever the bowtie check indexes its three per-vertex
\* tables with the vertex of an orbit corner, that vertex is below nVerts,
\* also when a non-degenerate face holds the all-bits-set index value; no
\* table is ever accessed outside its bounds.
C10_AsStated ==
    /\ ~oob
    /\ (pc = "orbit" /\ ~ovi.done /\ ovi.cur < arg.nFaces /\ ovi.corner <= 2)
          => arg.indices[ovi.cur * 3 + ovi.corner] < arg.nVerts

\* C9 (as stated): every call of Validate comes to its end, whatever the
\* adjacency that passed index validation.
C9_AsStated == <>(pc \in {"idle", "crashed"})

\* C8 (as stated): on a mesh whose vertex indices are all below the narrow
\* type's all-bits-set value, the uint16_t call and the uint32_t call return
\* the same status and name the same bowtie vertices.
C8_AsStated ==
    (/\ pc = "idle"
     /\ prev.called
     /\ prev.w # arg.w
     /\ prev.hasMsgs = arg.hasMsgs
     /\ \A k \in DOMAIN arg.indices : arg.indices[k] < IndexMax("uint16_t"))
        => /\ prev.ret = ret
           /\ arg.hasMsgs => BowtieVertices(prev.msgs) = BowtieVertices(msgs)

\* C7 (as stated): the call with a diagnostic string and the call without
\* return the same status, and the call with a string succeeds exactly when
\* it leaves the string empty.
C7_AsStated ==
    /\ (Returned /\ arg.hasMsgs) => (ret = S_OK <=> msgs = << >>)
    /\ (pc = "idle" /\ prev.called /\ prev.w = arg.w /\ prev.hasMsgs # arg.hasMsgs)
          => prev.ret = ret

\* C6 (as stated): with a diagnostic string and consistent adjacency, the
\* bowtie check appends exactly one bowtie text for each bowtie vertex and
\* none for anything else, and fails exactly when it appended one.
C6_AsStated ==
    (BowtiesChecked /\ arg.hasMsgs /\ ConsistentAdjacency(arg))
        => /\ \A v \in 0..(arg.nVerts - 1) :
                 Cardinality(BowtieTextsFor(msgs, v)) = IF IsBowtieVertex(arg, v) THEN 1 ELSE 0
           /\ BowtieVertices(msgs) \subseteq 0..(arg.nVerts - 1)
           /\ ret = (IF BowtieTexts(msgs) # {} THEN E_FAIL ELSE S_OK)

\* The bowtie texts are exact on the meshes without the all-bits-set index
\* value: the case C6 is stated for, short of that value.
BowtieTextsExact ==
    (/\ BowtiesChecked /\ arg.hasMsgs /\ ConsistentAdjacency(arg)
     /\ \A k \in DOMAIN arg.indices : arg.indices[k] < arg.nVerts)
        => /\ \A v \in 0..(arg.nVerts - 1) :
                 Cardinality(BowtieTextsFor(msgs, v)) = IF IsBowtieVertex(arg, v) THEN 1 ELSE 0
           /\ ret = (IF BowtieTexts(msgs) # {} THEN E_FAIL ELSE S_OK)

====
